---- MODULE Spec2Model ----
(***************************************************************************)
(* Model of the real-time delivery subsystem of sportz-websockets:         *)
(* src/src/arcjet.js (policy backend configuration), src/src/index.js      *)
(* (start-up) and src/src/ws/server.js, lines 114-264 (upgrade admission   *)
(* gate, connection handler, heartbeat, broadcast), and of the two POST    *)
(* routes that are meant to feed it (routes/matches.js, which is           *)
(* src/unnamed/part_001, and src/src/routes/commentary.js).                *)
(*                                                                         *)
(* Spec is the WebSocket server of src/; LiveSpec adds fairness,           *)
(* ShutdownSpec the close of the WebSocket server, ApiSpec the POST        *)
(* routes. The topic table and the message router are not in src/:         *)
(* SubSpec and ReapSpec model them from the specification.                 *)
(* InlineSpec is the earlier text of ws/server.js (lines 1-112), where the *)
(* policy check runs inside the connection handler; MwSpec is the HTTP     *)
(* middleware of arcjet.js; StatusSpec is getMatchStatus of                *)
(* src/src/utils/match-status.js.                                          *)
(*                                                                         *)
(* One upgrade request, its raw TCP socket and the WebSocket created from  *)
(* it share one identity r \in Reqs; requests are numbered in the order in *)
(* which their "upgrade" events are emitted.                               *)
(***************************************************************************)
EXTENDS Integers, Sequences, FiniteSets, TLC

\* ------------------------------------------------------------------ bounds
NReq == 2            \* upgrade requests that may arrive
MaxTicks == 2        \* firings of the heartbeat interval that are explored
MaxBroadcasts == 1   \* calls of broadcastMatchCreated that are explored
MaxPosts == 1        \* POST requests that are explored
MaxMessages == 2     \* inbound frames that are explored
MaxTime == 2         \* the instants are 0..MaxTime (milliseconds)
MaxSyncs == 2        \* calls of syncMatchStatus that are explored
MaxFeed == 3         \* entries of the feed given to buildRandomizedFeed

Reqs == 1..NReq

\* --------------------------------------------------------- request inputs
\* req.url values: the endpoint, another path, and a target that new URL()
\* cannot parse.
Urls == {"/ws", "/other", "//"}

\* decision.reason kinds of a denial
Reasons == {"RATE_LIMIT", "BOT", "SHIELD"}

\* ways wsArcjet.protect(req) settles
Outcomes == {[kind |-> "ALLOW", reason |-> "NONE"]}
            \cup {[kind |-> "DENY", reason |-> x] : x \in Reasons}
            \cup {[kind |-> "THROW", reason |-> "NONE"]}

VARIABLES
  phase,          \* "loading" | "running" | "failed" : the process
  arcjetKey,      \* process.env.ARCJET_KEY is set
  wsArcjet,       \* the exported wsArcjet is an instance (TRUE) or null
  req,            \* per upgrade request: handler position and raw socket
  ws,             \* per request: the WebSocket object made from it
  clients,        \* wss.clients
  ticks,          \* heartbeat firings so far
  bcastLog,       \* history: one entry per broadcastMatchCreated call
  skipped,        \* history: WebSockets a broadcast found in wss.clients
                  \* in a state other than OPEN
  heartbeat,      \* the interval of line 162 is scheduled
  http,           \* history: one entry per POST request that was answered
  mw,             \* per HTTP request: the run of securityMiddleware for it
  match,          \* the startTime and endTime given to getMatchStatus
  now,            \* the instant given to getMatchStatus
  computed,       \* what getMatchStatus returned, "none" before the call
  sync,           \* the match object given to syncMatchStatus and its calls
  seed,           \* the run of buildRandomizedFeed
  received,       \* inbound frames handled so far
  matchSubscribers, \* topic table: match id -> set of WebSockets
  subscriptions,  \* per WebSocket: the match ids it is subscribed to
  commentaryLog   \* history: one entry per commentary broadcast

\* what the REST routes touch, and what the message router and the topic
\* table touch
utilVars == <<mw, match, now, computed, sync, seed>>
apiVars == <<http, utilVars>>
subVars == <<received, matchSubscribers, subscriptions, commentaryLog>>

vars == <<phase, arcjetKey, wsArcjet, req, ws, clients, ticks, bcastLog,
          skipped, heartbeat, apiVars, subVars>>

\* ------------------------------------------------------------ arcjet.js
\* arcjet.js line 92 (second snapshot only): the module throws when the key
\* is missing, so index.js never gets past its imports.
ArcjetLoadThrows(snapshot, key) == snapshot = 2 /\ ~key

\* export const wsArcjet = arcjetKey ? arcjet({...}) : null
WsArcjetOf(key) == key

\* ------------------------------------------------------------ server.js
\* new URL(req.url, `http://${req.headers.host}`).pathname, or "INVALID"
\* when the constructor throws (line 177).
ParseURL(u) ==
  CASE u = "/ws"     -> "/ws"
    [] u = "/other"  -> "/other"
    [] u = "//"      -> "INVALID"

NoOutcome == [kind |-> "NONE", reason |-> "NONE"]

\* st: position of the "upgrade" handler; writes: the status lines the
\* handler wrote with socket.write and the one ws answered with, in order;
\* destroyed: the raw socket is destroyed; outcome: how protect() settled;
\* rejects: times the handler took a rejecting branch
NewReq == [st |-> "new", url |-> "/ws", writes |-> <<>>,
           destroyed |-> FALSE, outcome |-> NoOutcome, rejects |-> 0,
           protectCalls |-> 0, upgradeCalls |-> 0]

\* since: what the heartbeat has called on the WebSocket since its flag was
\* last set to true (by the connection handler or by a pong); closeCalls: the
\* codes the connection handler passed to socket.close, in order
NoWs == [readyState |-> "NONE", isAlive |-> "undefined", frames |-> <<>>,
         since |-> <<>>, closeCalls |-> <<>>]

\* position of securityMiddleware for one HTTP request, the calls of next()
\* it made and the statuses of the responses it sent, in order
NewMw == [st |-> "idle", route |-> "", outcome |-> NoOutcome,
          nextCalls |-> 0, responses |-> <<>>]

\* values JavaScript can hand to new Date(): an ISO string of an instant,
\* null, and a string that is no date
RawTime(kind, t) == [kind |-> kind, t |-> t]
NoMatch == [startTime |-> RawTime("null", 0), endTime |-> RawTime("null", 0)]

\* status: match.status of the object in memory; persisted: the status in
\* the database; next: nextStatus of the call in progress; at: the instant of
\* the last call; calls, updateCalls: how often syncMatchStatus and
\* updateStatus were called; returned: what the last call returned
NoSync == [st |-> "idle", status |-> "scheduled", persisted |-> "scheduled",
           next |-> "none", at |-> 0, calls |-> 0, updateCalls |-> 0,
           returned |-> "none"]

\* the value null of JavaScript, as a bucket key and as lastMatchId; the
\* match ids are the positive integers
Null == 0

\* st: position of buildRandomizedFeed; feed: its argument; cricket: the ids
\* matchMap gives a cricket match for; keys, buckets: the Map of line 443,
\* its keys in insertion order and their entries; randomized, lastMatchId:
\* the locals of lines 464-465; picks: the choices of line 483 so far
NoSeed == [st |-> "idle", feed |-> <<>>, cricket |-> {}, keys |-> <<>>,
           buckets |-> [k \in 0..2 |-> <<>>], randomized |-> <<>>,
           picks |-> <<>>, lastMatchId |-> Null]

Welcome == [type |-> "welcome", data |-> 0]
MatchCreated(m) == [type |-> "match_created", data |-> m]

\* socket.write(statusLine); socket.destroy(); as lines 179-180, 187-189,
\* 199-203 and 208-209 do
Reject(q, lines) ==
  [q EXCEPT !.writes = @ \o lines, !.destroyed = TRUE, !.st = "rejected",
            !.rejects = @ + 1]

DeniedWrites_Swapped(reason) ==
  IF reason = "RATE_LIMIT" THEN <<403>> ELSE <<429>>

DeniedWrites_NoElse(reason) ==
  IF reason = "RATE_LIMIT" THEN <<429, 403>> ELSE <<403>>

\* lines 198-202: the status line written for a denial
DeniedWrites(reason) == IF reason = "RATE_LIMIT" THEN <<429>> ELSE <<403>>

ErrorWrites_Forbidden == <<403>>

\* line 208: the status line written when protect() throws or rejects
ErrorWrites == <<500>>

ContinuesToUpgrade_NoReturn(o) == TRUE

\* lines 197-212: the handler reaches line 215 only when no branch returned
ContinuesToUpgrade(o) == o.kind = "ALLOW"

\* ws.send(data): the frame goes out on an open WebSocket; on a closing or
\* closed one ws drops it without throwing
send(c, payload) ==
  IF c.readyState = "OPEN" THEN [c EXCEPT !.frames = Append(@, payload)]
  ELSE c

sendJson_Inverted(c, payload) ==
  IF c.readyState = "OPEN" THEN c ELSE send(c, payload)

\* lines 123-128
sendJson(c, payload) == IF c.readyState # "OPEN" THEN c ELSE send(c, payload)

OnConnection_NoFlag(c) == sendJson([c EXCEPT !.since = <<>>], Welcome)

\* lines 224-244: the "connection" handler; it has no await, so it runs to
\* its end inside wss.emit("connection")
OnConnection(c) ==
  sendJson([c EXCEPT !.isAlive = "true", !.since = <<>>], Welcome)

\* lines 215-218, the request record: ws refuses a socket that is no longer
\* writable (it destroys it) and a handshake it finds malformed (400 and
\* destroy); otherwise it answers 101 and the socket becomes the WebSocket's.
\* h: the handshake headers are the ones ws requires.
HandleUpgradeReq(q, h) ==
  LET q1 == [q EXCEPT !.st = "handed", !.upgradeCalls = @ + 1]
  IN  IF q.destroyed THEN q1
      ELSE IF ~h THEN [q1 EXCEPT !.writes = @ \o <<400>>, !.destroyed = TRUE]
      ELSE [q1 EXCEPT !.writes = @ \o <<101>>]

\* lines 215-218: the upgrade completes (a WebSocket is created)
Completes(q, h) == ~q.destroyed /\ h

\* lines 215-218, the WebSocket: created OPEN, added to wss.clients, then the
\* callback emits "connection"
HandleUpgradeWs(q, h, c) ==
  IF Completes(q, h) THEN OnConnection([c EXCEPT !.readyState = "OPEN"])
  ELSE c

\* the whole of wss.handleUpgrade(req, socket, head, cb) for request r whose
\* record the handler has brought to q
HandleUpgrade(r, q, h) ==
  /\ req' = [req EXCEPT ![r] = HandleUpgradeReq(q, h)]
  /\ ws' = [ws EXCEPT ![r] = HandleUpgradeWs(q, h, @)]
  /\ clients' = IF Completes(q, h) THEN clients \cup {r} ELSE clients

Route_NoParseCheck(u) ==
  IF ParseURL(u) # "/ws" THEN "not_found" ELSE "admit"

Route_PolicyFirst(u) ==
  IF ParseURL(u) = "INVALID" THEN "bad_request" ELSE "admit"

\* lines 175-191: where the handler goes before any policy call
Route(u) ==
  IF ParseURL(u) = "INVALID" THEN "bad_request"
  ELSE IF ParseURL(u) # "/ws" THEN "not_found"
  ELSE "admit"

Init ==
  /\ phase = "loading"
  /\ arcjetKey \in BOOLEAN
  /\ wsArcjet = FALSE
  /\ req = [r \in Reqs |-> NewReq]
  /\ ws = [r \in Reqs |-> NoWs]
  /\ clients = {}
  /\ ticks = 0
  /\ bcastLog = <<>>
  /\ skipped = {}
  /\ heartbeat = FALSE
  /\ http = <<>>
  /\ mw = [r \in Reqs |-> NewMw]
  /\ match = NoMatch
  /\ now = 0
  /\ computed = "none"
  /\ sync = NoSync
  /\ seed = NoSeed
  /\ received = 0
  /\ matchSubscribers = [t \in {} |-> {}]
  /\ subscriptions = [r \in Reqs |-> {}]
  /\ commentaryLog = <<>>

\* index.js: the imports are evaluated (arcjet.js among them), then
\* attachWebSocketServer(server) and server.listen()
\* snapshot: which of the two arcjet.js texts is the one loaded (1: lines
\* 1-85, 2: lines 87-150)
Start(snapshot) ==
  /\ phase = "loading"
  /\ phase' = IF ArcjetLoadThrows(snapshot, arcjetKey) THEN "failed"
              ELSE "running"
  /\ wsArcjet' = IF ArcjetLoadThrows(snapshot, arcjetKey) THEN FALSE
                 ELSE WsArcjetOf(arcjetKey)
  /\ heartbeat' = ~ArcjetLoadThrows(snapshot, arcjetKey)
  /\ UNCHANGED <<arcjetKey, req, ws, clients, ticks, bcastLog, skipped>>
  /\ UNCHANGED <<apiVars, subVars>>

\* lines 174-196: the "upgrade" handler up to its first await (or to its end
\* when there is none)
UpgradeRequest(r, u, h) ==
  /\ phase = "running"
  /\ req[r].st = "new"
  /\ \A k \in Reqs : k < r => req[k].st # "new"
  /\ LET q == [req[r] EXCEPT !.url = u]
     IN  CASE Route(u) = "bad_request" ->
                /\ req' = [req EXCEPT ![r] = Reject(q, <<400>>)]
                /\ UNCHANGED <<ws, clients>>
           [] Route(u) = "not_found" ->
                /\ req' = [req EXCEPT ![r] = Reject(q, <<404>>)]
                /\ UNCHANGED <<ws, clients>>
           [] Route(u) = "admit" /\ wsArcjet ->
                /\ req' = [req EXCEPT ![r] =
                             [q EXCEPT !.st = "protecting",
                                       !.protectCalls = @ + 1]]
                /\ UNCHANGED <<ws, clients>>
           [] OTHER -> HandleUpgrade(r, q, h)
  /\ UNCHANGED <<phase, arcjetKey, wsArcjet, ticks, bcastLog, skipped>>
  /\ UNCHANGED <<heartbeat, apiVars, subVars>>

\* lines 196-218: the handler resumes when wsArcjet.protect(req) settles
ProtectSettles(r, o, h) ==
  /\ phase = "running"
  /\ req[r].st = "protecting"
  /\ LET q0 == [req[r] EXCEPT !.outcome = o]
         q == IF o.kind = "DENY" THEN Reject(q0, DeniedWrites(o.reason))
              ELSE IF o.kind = "THROW" THEN Reject(q0, ErrorWrites)
              ELSE q0
     IN  IF ContinuesToUpgrade(o)
         THEN HandleUpgrade(r, q, h)
         ELSE /\ req' = [req EXCEPT ![r] = q]
              /\ UNCHANGED <<ws, clients>>
  /\ UNCHANGED <<phase, arcjetKey, wsArcjet, ticks, bcastLog, skipped>>
  /\ UNCHANGED <<heartbeat, apiVars, subVars>>

\* the peer gives up and closes its TCP connection while protect() is pending
ClientAbort(r) ==
  /\ phase = "running"
  /\ req[r].st = "protecting"
  /\ ~req[r].destroyed
  /\ req' = [req EXCEPT ![r].destroyed = TRUE]
  /\ UNCHANGED <<phase, arcjetKey, wsArcjet, ws, clients, ticks, bcastLog,
                 skipped>>
  /\ UNCHANGED <<heartbeat, apiVars, subVars>>
\* ws.terminate(): the socket is destroyed at once, the WebSocket is CLOSING
\* until the socket's "close" event has been handled
terminate(c) ==
  LET c1 == [c EXCEPT !.since = Append(@, "terminate")]
  IN  IF c.readyState = "CLOSED" THEN c1
      ELSE [c1 EXCEPT !.readyState = "CLOSING"]

\* ws.ping(): the call is recorded; it never throws on a WebSocket of
\* wss.clients
ping(c) == [c EXCEPT !.since = Append(@, "ping")]

heartbeatEach_NeverTerminates(c) == ping([c EXCEPT !.isAlive = "false"])

heartbeatEach_NoReset(c) ==
  IF c.isAlive # "true" THEN terminate(c) ELSE ping(c)

\* lines 163-167: the body of wss.clients.forEach in the heartbeat
heartbeatEach(c) ==
  IF c.isAlive # "true" THEN terminate(c)
  ELSE ping([c EXCEPT !.isAlive = "false"])

\* lines 162-168: one firing of the interval
heartbeatInterval(w, cl) ==
  [r \in Reqs |-> IF r \in cl THEN heartbeatEach(w[r]) ELSE w[r]]

broadcast_Twice(w, cl, payload) ==
  [r \in Reqs |-> IF r \in cl /\ w[r].readyState = "OPEN"
                  THEN send(send(w[r], payload), payload) ELSE w[r]]

broadcast_Break(w, cl, payload) ==
  [r \in Reqs |->
     IF r \in cl /\ \A k \in cl : k <= r => w[k].readyState = "OPEN"
     THEN send(w[r], payload) ELSE w[r]]

\* lines 136-143; wss.clients is iterated in insertion order, which is the
\* order of the request numbers
broadcast(w, cl, payload) ==
  [r \in Reqs |-> IF r \in cl /\ w[r].readyState = "OPEN"
                  THEN send(w[r], payload) ELSE w[r]]

HeartbeatTick_Blocked ==
  /\ heartbeat
  /\ \A r \in Reqs : req[r].st # "protecting"
  /\ ticks < MaxTicks
  /\ ticks' = ticks + 1
  /\ ws' = heartbeatInterval(ws, clients)
  /\ UNCHANGED <<phase, arcjetKey, wsArcjet, req, clients, bcastLog,
                 skipped>>
  /\ UNCHANGED <<heartbeat, apiVars, subVars>>

HeartbeatTick ==
  /\ heartbeat
  /\ ticks < MaxTicks
  /\ ticks' = ticks + 1
  /\ ws' = heartbeatInterval(ws, clients)
  /\ UNCHANGED <<phase, arcjetKey, wsArcjet, req, clients, bcastLog,
                 skipped>>
  /\ UNCHANGED <<heartbeat, apiVars, subVars>>

onPong_NoFlag(c) == [c EXCEPT !.since = <<>>]

\* lines 231-233: the "pong" listener sets the flag; the record of what
\* happened since the flag was last set starts again
onPong(c) == [c EXCEPT !.isAlive = "true", !.since = <<>>]

\* lines 231-233: a pong frame arrives on an open WebSocket
Pong(r) ==
  /\ phase = "running"
  /\ r \in clients
  /\ ws[r].readyState = "OPEN"
  /\ ws' = [ws EXCEPT ![r] = onPong(@)]
  /\ UNCHANGED <<phase, arcjetKey, wsArcjet, req, clients, ticks, bcastLog,
                 skipped>>
  /\ UNCHANGED <<heartbeat, apiVars, subVars>>

\* the peer starts the closing handshake: the WebSocket is CLOSING until its
\* socket has closed
PeerClose(r) ==
  /\ phase = "running"
  /\ r \in clients
  /\ ws[r].readyState = "OPEN"
  /\ ws' = [ws EXCEPT ![r].readyState = "CLOSING"]
  /\ UNCHANGED <<phase, arcjetKey, wsArcjet, req, clients, ticks, bcastLog,
                 skipped>>
  /\ UNCHANGED <<heartbeat, apiVars, subVars>>

\* lines 240-243: the socket of an accepted WebSocket fails (ECONNRESET, ...).
\* ws emits "error" on the WebSocket, whose listener only logs, and destroys
\* the socket: the WebSocket is CLOSING until the socket's "close" event
WsError(r) ==
  /\ phase = "running"
  /\ r \in clients
  /\ ws[r].readyState = "OPEN"
  /\ ws' = [ws EXCEPT ![r].readyState = "CLOSING"]
  /\ UNCHANGED <<phase, arcjetKey, wsArcjet, req, clients, ticks, bcastLog,
                 skipped>>
  /\ UNCHANGED <<heartbeat, apiVars, subVars>>

\* lines 174-196: the socket of a request fails while wsArcjet.protect(req)
\* is pending. The HTTP server took its own listeners off the socket before
\* it emitted "upgrade" and the handler has put none on it, so the "error"
\* event has no listener: it is thrown as an uncaught exception and the
\* process exits, its timer and every connection with it
PendingSocketError(r) ==
  /\ phase = "running"
  /\ req[r].st = "protecting"
  /\ ~req[r].destroyed
  /\ phase' = "crashed"
  /\ req' = [req EXCEPT ![r].destroyed = TRUE]
  /\ ws' = [k \in Reqs |-> IF ws[k] = NoWs THEN ws[k]
                            ELSE [ws[k] EXCEPT !.readyState = "CLOSED"]]
  /\ clients' = {}
  /\ heartbeat' = FALSE
  /\ UNCHANGED <<arcjetKey, wsArcjet, ticks, bcastLog, skipped>>
  /\ UNCHANGED <<apiVars, subVars>>

\* the socket's "close" event (after terminate(), after a closing handshake
\* or after the peer vanished): the WebSocket is CLOSED and ws removes it
\* from wss.clients
SocketClose(r) ==
  /\ phase = "running"
  /\ r \in clients
  /\ ws' = [ws EXCEPT ![r].readyState = "CLOSED"]
  /\ clients' = clients \ {r}
  /\ UNCHANGED <<phase, arcjetKey, wsArcjet, req, ticks, bcastLog, skipped>>
  /\ UNCHANGED <<heartbeat, apiVars, subVars>>

\* lines 258-260: a collaborator calls broadcastMatchCreated(match); the
\* m-th call carries match m
BroadcastMatchCreated ==
  /\ phase = "running"
  /\ Len(bcastLog) < MaxBroadcasts
  /\ ws' = broadcast(ws, clients, MatchCreated(Len(bcastLog) + 1))
  /\ bcastLog' = Append(bcastLog,
       [open |-> {r \in clients : ws[r].readyState = "OPEN"}])
  /\ skipped' = skipped \cup {r \in clients : ws[r].readyState # "OPEN"}
  /\ UNCHANGED <<phase, arcjetKey, wsArcjet, req, clients, ticks>>
  /\ UNCHANGED <<heartbeat, apiVars, subVars>>

Next ==
  \/ \E s \in {1, 2} : Start(s)
  \/ \E r \in Reqs, u \in Urls, h \in BOOLEAN : UpgradeRequest(r, u, h)
  \/ \E r \in Reqs, o \in Outcomes, h \in BOOLEAN : ProtectSettles(r, o, h)
  \/ \E r \in Reqs : ClientAbort(r)
  \/ HeartbeatTick
  \/ \E r \in Reqs : Pong(r)
  \/ \E r \in Reqs : PeerClose(r)
  \/ \E r \in Reqs : WsError(r)
  \/ \E r \in Reqs : PendingSocketError(r)
  \/ \E r \in Reqs : SocketClose(r)
  \/ BroadcastMatchCreated

Spec == Init /\ [][Next]_vars
\* WF: a running interval timer keeps firing, and a socket that was destroyed
\* or is in the closing handshake emits "close"
ClosingCompletes(r) == ws[r].readyState = "CLOSING" /\ SocketClose(r)

LiveSpec ==
  /\ Spec
  /\ WF_vars(HeartbeatTick)
  /\ \A r \in Reqs : WF_vars(ClosingCompletes(r))

\* ------------------------------------------------------------- shutdown
onWssClose_Keep(scheduled) == scheduled

\* lines 249-252: the "close" listener of wss clears the interval
onWssClose(scheduled) == FALSE

\* lines 249-252: wss emits "close". Nothing in index.js or server.js closes
\* wss (it is not returned by attachWebSocketServer), so this is the step of
\* an environment that shuts the WebSocket server down; the model follows
\* the server up to that point and, after it, only its timer
WssClose ==
  /\ phase = "running"
  /\ phase' = "closed"
  /\ heartbeat' = onWssClose(heartbeat)
  /\ UNCHANGED <<arcjetKey, wsArcjet, req, ws, clients, ticks, bcastLog,
                 skipped, apiVars, subVars>>

ShutdownNext == Next \/ WssClose

ShutdownSpec == Init /\ [][ShutdownNext]_vars

\* ------------------------------------------------------------ REST routes
\* values of the :id path parameter; matchIdParamSchema accepts the positive
\* integers
PathIds == {0, 1, 2}

\* routes/matches.js lines 54-90, routes/commentary.js lines 65-100: 400 when
\* a schema rejects the request, 201 when the insert returned the row, 500
\* when it threw
PostStatus(valid, insertOk) ==
  IF ~valid THEN 400 ELSE IF insertOk THEN 201 ELSE 500

\* routes/matches.js lines 52-91: POST /matches. The handler validates,
\* inserts and answers; it reads nothing from req.app.locals and calls
\* nothing of the WebSocket server
PostMatches(valid, insertOk) ==
  /\ phase = "running"
  /\ Len(http) < MaxPosts
  /\ http' = Append(http, [route |-> "matches", matchId |-> 0,
                           status |-> PostStatus(valid, insertOk)])
  /\ UNCHANGED <<phase, arcjetKey, wsArcjet, req, ws, clients, ticks,
                 bcastLog, skipped, heartbeat, utilVars, subVars>>

\* routes/commentary.js lines 63-101: POST /matches/:id/commentary. The
\* same: validate the id and the body, insert, answer
PostCommentary(id, valid, insertOk) ==
  /\ phase = "running"
  /\ Len(http) < MaxPosts
  /\ http' = Append(http, [route |-> "commentary", matchId |-> id,
                           status |-> PostStatus(id > 0 /\ valid, insertOk)])
  /\ UNCHANGED <<phase, arcjetKey, wsArcjet, req, ws, clients, ticks,
                 bcastLog, skipped, heartbeat, utilVars, subVars>>

ApiNext ==
  \/ Next
  \/ \E valid, insertOk \in BOOLEAN : PostMatches(valid, insertOk)
  \/ \E id \in PathIds, valid, insertOk \in BOOLEAN :
       PostCommentary(id, valid, insertOk)

ApiSpec == Init /\ [][ApiNext]_vars

\* ------------------------------------------- topic table, message router
\* The part of the subsystem that src/ does not hold (index.js lines 57-63
\* take broadcastCommentary from attachWebSocketServer): it is modelled from
\* sections 3, 4.3, 4.4, 4.5 and 6 of the specification.

\* match ids that are subscribed to and broadcast for
MatchIds == {1, 2}

\* text frames a client sends
Texts ==
  {"not-json",
   "{\"type\":\"subscribe\",\"matchId\":1}",
   "{\"type\":\"subscribe\",\"matchId\":2}",
   "{\"type\":\"subscribe\",\"matchId\":0}",
   "{\"type\":\"unsubscribe\",\"matchId\":1}",
   "{\"type\":\"unsubscribe\",\"matchId\":2}",
   "{\"type\":\"hello\"}"}

JSONParse_AlwaysSubscribe(text) ==
  [ok |-> TRUE, type |-> "subscribe", matchId |-> 1]

\* decoding of a text frame: the command, or ok = FALSE when the text is not
\* JSON
JSONParse(text) ==
  CASE text = "{\"type\":\"subscribe\",\"matchId\":1}" ->
         [ok |-> TRUE, type |-> "subscribe", matchId |-> 1]
    [] text = "{\"type\":\"subscribe\",\"matchId\":2}" ->
         [ok |-> TRUE, type |-> "subscribe", matchId |-> 2]
    [] text = "{\"type\":\"subscribe\",\"matchId\":0}" ->
         [ok |-> TRUE, type |-> "subscribe", matchId |-> 0]
    [] text = "{\"type\":\"unsubscribe\",\"matchId\":1}" ->
         [ok |-> TRUE, type |-> "unsubscribe", matchId |-> 1]
    [] text = "{\"type\":\"unsubscribe\",\"matchId\":2}" ->
         [ok |-> TRUE, type |-> "unsubscribe", matchId |-> 2]
    [] text = "{\"type\":\"hello\"}" ->
         [ok |-> TRUE, type |-> "hello", matchId |-> 0]
    [] OTHER -> [ok |-> FALSE, type |-> "", matchId |-> 0]

Subscribed_Zero(t) == [type |-> "subscribed", data |-> 0]

\* outbound frames; data is the match id
Subscribed(t) == [type |-> "subscribed", data |-> t]
Commentary(t) == [type |-> "commentary", data |-> t]
InvalidJson == [type |-> "error", message |-> "Invalid JSON"]

\* the table and the WebSockets' own sets, changed as one unit
Table == [table |-> matchSubscribers, own |-> subscriptions]

subscribersOf(st, t) == IF t \in DOMAIN st.table THEN st.table[t] ELSE {}

subscribe_TableOnly(st, t, c) ==
  [st EXCEPT !.table = [k \in DOMAIN st.table \cup {t} |->
                          IF k = t THEN subscribersOf(st, t) \cup {c}
                          ELSE st.table[k]]]

subscribe(st, t, c) ==
  [table |-> [k \in DOMAIN st.table \cup {t} |->
                IF k = t THEN subscribersOf(st, t) \cup {c}
                ELSE st.table[k]],
   own |-> [st.own EXCEPT ![c] = @ \cup {t}]]

unsubscribe_KeepKey(st, t, c) ==
  [table |-> [k \in DOMAIN st.table |->
                IF k = t THEN st.table[k] \ {c} ELSE st.table[k]],
   own |-> [st.own EXCEPT ![c] = @ \ {t}]]

unsubscribe(st, t, c) ==
  LET left == subscribersOf(st, t) \ {c}
      keys == IF left = {} THEN DOMAIN st.table \ {t} ELSE DOMAIN st.table
  IN  [table |-> [k \in keys |-> IF k = t THEN left ELSE st.table[k]],
       own |-> [st.own EXCEPT ![c] = @ \ {t}]]

cleanup_Nothing(st, c) == st

RECURSIVE cleanup(_, _)
cleanup(st, c) ==
  IF st.own[c] = {} THEN st
  ELSE LET t == CHOOSE x \in st.own[c] : TRUE
       IN  cleanup(unsubscribe(st, t, c), c)

broadcastTopic_All(w, st, t, payload) ==
  [r \in Reqs |-> IF w[r].readyState = "OPEN" THEN send(w[r], payload)
                  ELSE w[r]]

\* every subscriber of the topic that is OPEN is written to
broadcastTopic(w, st, t, payload) ==
  [r \in Reqs |->
     IF r \in subscribersOf(st, t) /\ w[r].readyState = "OPEN"
     THEN send(w[r], payload) ELSE w[r]]

\* the "message" listener: decode, then dispatch
Message(r, text) ==
  /\ phase = "running"
  /\ r \in clients
  /\ ws[r].readyState = "OPEN"
  /\ received < MaxMessages
  /\ received' = received + 1
  /\ LET d == JSONParse(text)
         st == IF ~d.ok THEN Table
               ELSE IF d.type = "subscribe" /\ d.matchId > 0
                 THEN subscribe(Table, d.matchId, r)
               ELSE IF d.type = "unsubscribe" /\ d.matchId > 0
                 THEN unsubscribe(Table, d.matchId, r)
               ELSE Table
     IN  /\ matchSubscribers' = st.table
         /\ subscriptions' = st.own
         /\ ws' = IF ~d.ok
                    THEN [ws EXCEPT ![r] = sendJson(@, InvalidJson)]
                  ELSE IF d.type = "subscribe" /\ d.matchId > 0
                    THEN [ws EXCEPT ![r] = sendJson(@, Subscribed(d.matchId))]
                  ELSE ws
  /\ UNCHANGED <<phase, arcjetKey, wsArcjet, req, clients, ticks, bcastLog,
                 skipped, heartbeat, apiVars, commentaryLog>>

\* a collaborator calls the notify-new-commentary entry point for match t
BroadcastCommentary(t) ==
  /\ phase = "running"
  /\ Len(commentaryLog) < MaxBroadcasts
  /\ ws' = broadcastTopic(ws, Table, t, Commentary(t))
  /\ commentaryLog' = Append(commentaryLog, t)
  /\ UNCHANGED <<phase, arcjetKey, wsArcjet, req, clients, ticks, bcastLog,
                 skipped, heartbeat, apiVars, received, matchSubscribers,
                 subscriptions>>

\* the "close" event of a WebSocket: ws takes it out of wss.clients and the
\* listener drains its subscriptions
CloseCleanup(r) ==
  /\ phase = "running"
  /\ r \in clients
  /\ ws' = [ws EXCEPT ![r].readyState = "CLOSED"]
  /\ clients' = clients \ {r}
  /\ matchSubscribers' = cleanup(Table, r).table
  /\ subscriptions' = cleanup(Table, r).own
  /\ UNCHANGED <<phase, arcjetKey, wsArcjet, req, ticks, bcastLog, skipped,
                 heartbeat, apiVars, received, commentaryLog>>

\* the server as attachWebSocketServer leaves it when no policy is configured
SubInit ==
  /\ phase = "running"
  /\ arcjetKey = FALSE
  /\ wsArcjet = FALSE
  /\ req = [r \in Reqs |-> NewReq]
  /\ ws = [r \in Reqs |-> NoWs]
  /\ clients = {}
  /\ ticks = 0
  /\ bcastLog = <<>>
  /\ skipped = {}
  /\ heartbeat = TRUE
  /\ http = <<>>
  /\ mw = [r \in Reqs |-> NewMw]
  /\ match = NoMatch
  /\ now = 0
  /\ computed = "none"
  /\ sync = NoSync
  /\ seed = NoSeed
  /\ received = 0
  /\ matchSubscribers = [t \in {} |-> {}]
  /\ subscriptions = [r \in Reqs |-> {}]
  /\ commentaryLog = <<>>

\* the router, the table and the commentary broadcast, with connections that
\* are closed by the peer or by a transport error
SubNext ==
  \/ \E r \in Reqs : UpgradeRequest(r, "/ws", TRUE)
  \/ \E r \in Reqs, text \in Texts : Message(r, text)
  \/ \E t \in MatchIds : BroadcastCommentary(t)
  \/ \E r \in Reqs : PeerClose(r)
  \/ \E r \in Reqs : WsError(r)
  \/ \E r \in Reqs : CloseCleanup(r)

SubSpec == SubInit /\ [][SubNext]_vars

\* the router and the table, with connections that are closed by the peer,
\* by a transport error or by the heartbeat
ReapNext ==
  \/ \E r \in Reqs : UpgradeRequest(r, "/ws", TRUE)
  \/ \E r \in Reqs, text \in Texts : Message(r, text)
  \/ HeartbeatTick
  \/ \E r \in Reqs : Pong(r)
  \/ \E r \in Reqs : PeerClose(r)
  \/ \E r \in Reqs : WsError(r)
  \/ \E r \in Reqs : CloseCleanup(r)

ReapSpec == SubInit /\ [][ReapNext]_vars

\* ------------------------------------- server.js, first snapshot (1-112)
\* The WebSocketServer is created with { server, path: "/ws" }: ws answers
\* the upgrade itself, and the policy check runs inside the async
\* "connection" handler, after the WebSocket is OPEN and in wss.clients.

\* line 73: socket.close(1011, "Server security error")
ErrorCloseCode == 1011

DeniedCloseCode_Swapped(reason) == IF reason = "RATE_LIMIT" THEN 1008 ELSE 1013

\* line 65: decision.reason.isRateLimit() ? 1013 : 1008
DeniedCloseCode(reason) == IF reason = "RATE_LIMIT" THEN 1013 ELSE 1008

\* socket.close(code, reason) of ws: an OPEN WebSocket becomes CLOSING at
\* once and the close frame carries the code; on a WebSocket that is already
\* CLOSING or CLOSED the call changes nothing
close(c, code) ==
  [c EXCEPT !.closeCalls = Append(@, code),
            !.readyState = IF @ = "OPEN" THEN "CLOSING" ELSE @]

\* lines 61-75: what the try/catch around the policy call does to the
\* WebSocket once the call has settled with outcome o
AfterProtect(c, o) ==
  CASE o.kind = "DENY" -> close(c, DeniedCloseCode(o.reason))
    [] o.kind = "THROW" -> close(c, ErrorCloseCode)
    [] OTHER -> c

\* lines 77-93: the rest of the handler, reached on every path because no
\* branch above returns. The statements are those of OnConnection.
HandlerTail(c) == OnConnection(c)

\* lines 39-43 and 58-63: a handshake for /ws arrives; ws completes it, adds
\* the WebSocket to wss.clients and emits "connection". The handler runs to
\* the await of line 63 when a policy is configured, and to its end when not
InlineConnection(r) ==
  /\ phase = "running"
  /\ req[r].st = "new"
  /\ \A j \in Reqs : j < r => req[j].st # "new"
  /\ req' = [req EXCEPT ![r].st = IF wsArcjet THEN "protecting" ELSE "handed",
                        ![r].writes = <<101>>,
                        ![r].protectCalls = IF wsArcjet THEN 1 ELSE 0]
  /\ ws' = [ws EXCEPT ![r] =
              IF wsArcjet THEN [NoWs EXCEPT !.readyState = "OPEN"]
              ELSE HandlerTail([NoWs EXCEPT !.readyState = "OPEN"])]
  /\ clients' = clients \cup {r}
  /\ UNCHANGED <<phase, arcjetKey, wsArcjet, ticks, bcastLog, skipped>>
  /\ UNCHANGED <<heartbeat, apiVars, subVars>>

\* lines 63-93: the policy call settles with outcome o and the handler runs
\* from the await to its end
InlineProtectSettles(r, o) ==
  /\ phase = "running"
  /\ req[r].st = "protecting"
  /\ req' = [req EXCEPT ![r].st = "handed", ![r].outcome = o]
  /\ ws' = [ws EXCEPT ![r] = HandlerTail(AfterProtect(@, o))]
  /\ UNCHANGED <<phase, arcjetKey, wsArcjet, clients, ticks, bcastLog,
                 skipped>>
  /\ UNCHANGED <<heartbeat, apiVars, subVars>>

\* the pong listener exists from line 81 on, that is once the handler has
\* passed the await
InlinePong(r) ==
  /\ req[r].st = "handed"
  /\ Pong(r)

\* the peer's socket closes while the handler is suspended at the await: ws
\* marks the WebSocket CLOSED and removes it from wss.clients
InlineAbort(r) ==
  /\ req[r].st = "protecting"
  /\ SocketClose(r)

InlineNext ==
  \/ \E s \in {1, 2} : Start(s)
  \/ \E r \in Reqs : InlineConnection(r)
  \/ \E r \in Reqs, o \in Outcomes : InlineProtectSettles(r, o)
  \/ HeartbeatTick
  \/ \E r \in Reqs : InlinePong(r)
  \/ \E r \in Reqs : InlineAbort(r)
  \/ BroadcastMatchCreated

InlineSpec == Init /\ [][InlineNext]_vars

\* ------------------------------------------- arcjet.js securityMiddleware
\* The two snapshots of arcjet.js hold the same middleware text (lines 62-85
\* and 127-150). index.js line 37 has app.use(securityMiddleware()) commented
\* out; the routes below are those it would precede.
MwRoutes == {"/matches", "/matches/:id/commentary"}

\* export const httpArcjet = arcjetKey ? arcjet({...}) : null
HttpArcjetOf(key) == key

\* lines 70-75: decision.reason.isRateLimit() ? 429 : 403
MwDeniedStatus(reason) == IF reason = "RATE_LIMIT" THEN 429 ELSE 403

\* line 79: res.status(503)
MwErrorStatus == 503

\* lines 65-67: without a policy next() is called and the middleware returns;
\* with one it calls protect(req) and suspends
MiddlewareEnters(m, route, httpArcjet) ==
  IF ~httpArcjet
  THEN [m EXCEPT !.st = "done", !.route = route, !.nextCalls = @ + 1]
  ELSE [m EXCEPT !.st = "protecting", !.route = route]

MiddlewareSettles_FallThrough(m, o) ==
  [m EXCEPT !.st = "done", !.outcome = o,
            !.responses = CASE o.kind = "DENY" ->
                                 Append(@, MwDeniedStatus(o.reason))
                            [] o.kind = "THROW" -> Append(@, MwErrorStatus)
                            [] OTHER -> @,
            !.nextCalls = @ + 1]

\* lines 67-83: a denial returns the response inside the try block, a throw
\* returns it inside the catch block, and only an allow decision reaches the
\* next() of line 83
MiddlewareSettles(m, o) ==
  CASE o.kind = "DENY" ->
         [m EXCEPT !.st = "done", !.outcome = o,
                   !.responses = Append(@, MwDeniedStatus(o.reason))]
    [] o.kind = "THROW" ->
         [m EXCEPT !.st = "done", !.outcome = o,
                   !.responses = Append(@, MwErrorStatus)]
    [] OTHER ->
         [m EXCEPT !.st = "done", !.outcome = o, !.nextCalls = @ + 1]

\* express calls the middleware for an HTTP request
SecurityMiddleware(r, route) ==
  /\ phase = "running"
  /\ mw[r].st = "idle"
  /\ mw' = [mw EXCEPT ![r] = MiddlewareEnters(@, route, HttpArcjetOf(arcjetKey))]
  /\ UNCHANGED <<phase, arcjetKey, wsArcjet, req, ws, clients, ticks,
                 bcastLog, skipped, heartbeat, http, match, now, computed,
                 sync, seed, subVars>>

\* httpArcjet.protect(req) settles with outcome o
HttpProtectSettles(r, o) ==
  /\ phase = "running"
  /\ mw[r].st = "protecting"
  /\ mw' = [mw EXCEPT ![r] = MiddlewareSettles(@, o)]
  /\ UNCHANGED <<phase, arcjetKey, wsArcjet, req, ws, clients, ticks,
                 bcastLog, skipped, heartbeat, http, match, now, computed,
                 sync, seed, subVars>>

MwNext ==
  \/ \E s \in {1, 2} : Start(s)
  \/ \E r \in Reqs, route \in MwRoutes : SecurityMiddleware(r, route)
  \/ \E r \in Reqs, o \in Outcomes : HttpProtectSettles(r, o)

MwSpec == Init /\ [][MwNext]_vars

\* ------------------------------------------------- utils/match-status.js
Instants == 0..MaxTime

\* what startTime and endTime may be: the ISO string of an instant, null, or
\* a string that is no date
RawTimes == {RawTime("iso", t) : t \in Instants}
            \cup {RawTime("null", 0), RawTime("text", 0)}

\* new Date(x): the instant an ISO string names, the epoch for null, and an
\* Invalid Date (getTime() is NaN) for a string that is no date
NewDate(x) ==
  CASE x.kind = "iso" -> [valid |-> TRUE, ms |-> x.t]
    [] x.kind = "null" -> [valid |-> TRUE, ms |-> 0]
    [] OTHER -> [valid |-> FALSE, ms |-> 0]

getMatchStatus_Flipped(startTime, endTime, n) ==
  LET start == NewDate(startTime)
      end == NewDate(endTime)
  IN  IF ~start.valid \/ ~end.valid THEN "null"
      ELSE IF n < start.ms THEN "finished"
      ELSE IF n >= end.ms THEN "scheduled"
      ELSE "live"

getMatchStatus_EndExclusive(startTime, endTime, n) ==
  LET start == NewDate(startTime)
      end == NewDate(endTime)
  IN  IF ~start.valid \/ ~end.valid THEN "null"
      ELSE IF n < start.ms THEN "scheduled"
      ELSE IF n > end.ms THEN "finished"
      ELSE "live"

\* lines 4-25; n is the instant of the valid Date that new Date() or the
\* caller supplies as now
getMatchStatus(startTime, endTime, n) ==
  LET start == NewDate(startTime)
      end == NewDate(endTime)
  IN  IF ~start.valid \/ ~end.valid THEN "null"
      ELSE IF n < start.ms THEN "scheduled"
      ELSE IF n >= end.ms THEN "finished"
      ELSE "live"

\* any pair of times may be asked about; the clock starts at the epoch
StatusInit ==
  /\ phase = "running"
  /\ arcjetKey = FALSE
  /\ wsArcjet = FALSE
  /\ req = [r \in Reqs |-> NewReq]
  /\ ws = [r \in Reqs |-> NoWs]
  /\ clients = {}
  /\ ticks = 0
  /\ bcastLog = <<>>
  /\ skipped = {}
  /\ heartbeat = TRUE
  /\ http = <<>>
  /\ mw = [r \in Reqs |-> NewMw]
  /\ match \in [startTime : RawTimes, endTime : RawTimes]
  /\ now = 0
  /\ computed = "none"
  /\ sync = NoSync
  /\ seed = NoSeed
  /\ received = 0
  /\ matchSubscribers = [t \in {} |-> {}]
  /\ subscriptions = [r \in Reqs |-> {}]
  /\ commentaryLog = <<>>

\* a caller asks for the status of the match at the current instant
GetMatchStatus ==
  /\ computed = "none"
  /\ computed' = getMatchStatus(match.startTime, match.endTime, now)
  /\ UNCHANGED <<phase, arcjetKey, wsArcjet, req, ws, clients, ticks,
                 bcastLog, skipped, heartbeat, http, mw, match, now, sync,
                 seed, subVars>>

\* time passes; what was computed for the earlier instant is dropped
ClockAdvances ==
  /\ now < MaxTime
  /\ now' = now + 1
  /\ computed' = "none"
  /\ UNCHANGED <<phase, arcjetKey, wsArcjet, req, ws, clients, ticks,
                 bcastLog, skipped, heartbeat, http, mw, match, sync, seed,
                 subVars>>

StatusNext == GetMatchStatus \/ ClockAdvances

StatusSpec == StatusInit /\ [][StatusNext]_vars

\* ------------------------------------- utils/match-status.js, lines 27-44
\* MATCH_STATUS of validation/matches.js
Statuses == {"scheduled", "live", "finished"}

syncEnters_AlwaysUpdates(y, m, n) ==
  LET nextStatus == getMatchStatus(m.startTime, m.endTime, n)
  IN  IF nextStatus = "null"
      THEN [y EXCEPT !.st = "returned", !.next = nextStatus, !.at = n,
                     !.calls = @ + 1, !.returned = y.status]
      ELSE [y EXCEPT !.st = "updating", !.next = nextStatus, !.at = n,
                     !.calls = @ + 1, !.updateCalls = @ + 1,
                     !.returned = "none"]

\* lines 29-39: the call up to its return or to the await of line 38
syncEnters(y, m, n) ==
  LET nextStatus == getMatchStatus(m.startTime, m.endTime, n)
  IN  IF nextStatus = "null"
      THEN [y EXCEPT !.st = "returned", !.next = nextStatus, !.at = n,
                     !.calls = @ + 1, !.returned = y.status]
      ELSE IF y.status # nextStatus
      THEN [y EXCEPT !.st = "updating", !.next = nextStatus, !.at = n,
                     !.calls = @ + 1, !.updateCalls = @ + 1,
                     !.returned = "none"]
      ELSE [y EXCEPT !.st = "returned", !.next = nextStatus, !.at = n,
                     !.calls = @ + 1, !.returned = y.status]

syncResumes_AssignsFirst(y, ok, wrote) ==
  IF ok
  THEN [y EXCEPT !.st = "returned", !.persisted = y.next,
                 !.status = y.next, !.returned = y.next]
  ELSE [y EXCEPT !.st = "threw", !.status = y.next,
                 !.persisted = IF wrote THEN y.next ELSE @]

\* lines 38-43: updateStatus(nextStatus) settles. When it fulfils, the status
\* is persisted, match.status is assigned and returned; when it rejects, the
\* await throws out of syncMatchStatus before line 39. wrote: the database
\* took the new status although updateStatus rejected
syncResumes(y, ok, wrote) ==
  IF ok
  THEN [y EXCEPT !.st = "returned", !.persisted = y.next,
                 !.status = y.next, !.returned = y.next]
  ELSE [y EXCEPT !.st = "threw", !.persisted = IF wrote THEN y.next ELSE @]

\* a match loaded from the database, with any times and any stored status
SyncInit ==
  /\ phase = "running"
  /\ arcjetKey = FALSE
  /\ wsArcjet = FALSE
  /\ req = [r \in Reqs |-> NewReq]
  /\ ws = [r \in Reqs |-> NoWs]
  /\ clients = {}
  /\ ticks = 0
  /\ bcastLog = <<>>
  /\ skipped = {}
  /\ heartbeat = TRUE
  /\ http = <<>>
  /\ mw = [r \in Reqs |-> NewMw]
  /\ match \in [startTime : RawTimes, endTime : RawTimes]
  /\ now = 0
  /\ computed = "none"
  /\ \E st \in Statuses : sync = [NoSync EXCEPT !.status = st, !.persisted = st]
  /\ seed = NoSeed
  /\ received = 0
  /\ matchSubscribers = [t \in {} |-> {}]
  /\ subscriptions = [r \in Reqs |-> {}]
  /\ commentaryLog = <<>>

\* a caller calls syncMatchStatus(match, updateStatus); no call is in progress
SyncMatchStatus ==
  /\ sync.st # "updating"
  /\ sync.calls < MaxSyncs
  /\ sync' = syncEnters(sync, match, now)
  /\ UNCHANGED <<phase, arcjetKey, wsArcjet, req, ws, clients, ticks,
                 bcastLog, skipped, heartbeat, http, mw, match, now, computed,
                 seed, subVars>>

\* the promise of updateStatus settles
UpdateStatusSettles(ok, wrote) ==
  /\ sync.st = "updating"
  /\ sync' = syncResumes(sync, ok, wrote)
  /\ UNCHANGED <<phase, arcjetKey, wsArcjet, req, ws, clients, ticks,
                 bcastLog, skipped, heartbeat, http, mw, match, now, computed,
                 seed, subVars>>

SyncNext ==
  \/ SyncMatchStatus
  \/ \E ok, wrote \in BOOLEAN : UpdateStatusSettles(ok, wrote)
  \/ ClockAdvances

SyncSpec == SyncInit /\ [][SyncNext]_vars

\* ------------------------------- POST /matches with its start and end time
\* db/schema.js lines 12-16: pgEnum("match_status", [...])
matchStatusEnum == <<"scheduled", "live", "finished">>

createMatchSchema_AnyTime(m) == TRUE

\* validation/matches.js lines 24-45, for the two times: each must be an ISO
\* datetime string (z.iso.datetime()), and superRefine adds an issue when
\* new Date(endTime) <= new Date(startTime)
createMatchSchema(m) ==
  /\ m.startTime.kind = "iso"
  /\ m.endTime.kind = "iso"
  /\ ~(NewDate(m.endTime).ms <= NewDate(m.startTime).ms)

\* routes/matches.js lines 52-91 with the body's times: 400 when the schema
\* rejects them; otherwise line 79 computes the status from the two strings
\* and the insert stores it (201) or throws (500)
CreateMatch(insertOk) ==
  /\ phase = "running"
  /\ Len(http) < MaxPosts
  /\ http' = Append(http, [route |-> "matches", matchId |-> 0,
                           status |-> PostStatus(createMatchSchema(match),
                                                 insertOk)])
  /\ computed' = IF createMatchSchema(match)
                 THEN getMatchStatus(match.startTime, match.endTime, now)
                 ELSE computed
  /\ UNCHANGED <<phase, arcjetKey, wsArcjet, req, ws, clients, ticks,
                 bcastLog, skipped, heartbeat, mw, match, now, sync, seed,
                 subVars>>

CreateNext ==
  \/ \E insertOk \in BOOLEAN : CreateMatch(insertOk)
  \/ GetMatchStatus
  \/ ClockAdvances

CreateSpec == StatusInit /\ [][CreateNext]_vars

\* ------------------------------------------------------- seed/seed.js
\* bucket keys: null for an entry without an integer matchId, else the id
BucketKeys == 0..2

\* an entry of the feed: id is its position in the feed (the entries are
\* distinct objects); matchId is Null when entry.matchId is no integer; team
\* is "undefined" when the entry has no team; innings is
\* inningsRank(entry.period). No entry has a finite sequence or minute, so
\* the comparator of lines 304-320 orders by innings alone
Teams == {"home", "away", "undefined"}
Innings == {1, 2}
EntryAttrs == [matchId : BucketKeys, team : Teams, innings : Innings]

\* the feed whose i-th entry has the attributes f[i]
feedOf(f) ==
  [i \in DOMAIN f |-> [id |-> i, matchId |-> f[i].matchId,
                       team |-> f[i].team, innings |-> f[i].innings]]

\* lines 339-361 for the entries of one innings; the match has homeTeam
\* "home" and awayTeam "away"
orderInnings(inningsEntries) ==
  LET IsSide(e) == e.team = "home" \/ e.team = "away"
      found == SelectSeq(inningsEntries, IsSide)
      primaryTeam == IF found = <<>> THEN "undefined" ELSE found[1].team
      secondaryTeam == IF primaryTeam = "home" THEN "away" ELSE "home"
      IsNeutral(e) == e.team = "undefined" \/ e.team = "neutral"
      IsPrimary(e) == e.team = primaryTeam
      IsSecondary(e) == e.team = secondaryTeam
      IsOther(e) == /\ e.team # "undefined"
                    /\ e.team # "neutral"
                    /\ e.team # primaryTeam
                    /\ e.team # secondaryTeam
  IN  SelectSeq(inningsEntries, IsNeutral)
        \o SelectSeq(inningsEntries, IsPrimary)
        \o SelectSeq(inningsEntries, IsSecondary)
        \o SelectSeq(inningsEntries, IsOther)

\* lines 303-364: the stable sort by innings, the grouping by innings and the
\* reordering of each group, groups in ascending innings
normalizeCricketFeed(entries) ==
  LET In1(e) == e.innings = 1
      In2(e) == e.innings = 2
      g1 == SelectSeq(entries, In1)
      g2 == SelectSeq(entries, In2)
  IN  (IF g1 = <<>> THEN <<>> ELSE orderInnings(g1))
        \o (IF g2 = <<>> THEN <<>> ELSE orderInnings(g2))

\* line 445
keyOf(entry) == entry.matchId

\* lines 443-450: the keys of the Map in the order of their first entry
RECURSIVE keysOf(_, _)
keysOf(feed, seen) ==
  IF feed = <<>> THEN <<>>
  ELSE IF keyOf(Head(feed)) \in seen THEN keysOf(Tail(feed), seen)
  ELSE <<keyOf(Head(feed))>>
         \o keysOf(Tail(feed), seen \cup {keyOf(Head(feed))})

\* lines 443-462: the buckets, those of cricket matches normalized
bucketsOf(feed, cricket) ==
  [k \in BucketKeys |->
     LET Mine(e) == keyOf(e) = k
         entries == SelectSeq(feed, Mine)
     IN  IF k # Null /\ k \in cricket /\ entries # <<>>
         THEN normalizeCricketFeed(entries)
         ELSE entries]

\* lines 468-470
candidates(y) == {k \in BucketKeys : y.buckets[k] # <<>>}

\* lines 475-481
selectable(y) ==
  IF y.lastMatchId # Null /\ Cardinality(candidates(y)) > 1
  THEN IF candidates(y) \ {y.lastMatchId} # {}
       THEN candidates(y) \ {y.lastMatchId}
       ELSE candidates(y)
  ELSE candidates(y)

\* seed() is called with some feed and some matchMap
SeedInit ==
  /\ phase = "running"
  /\ arcjetKey = FALSE
  /\ wsArcjet = FALSE
  /\ req = [r \in Reqs |-> NewReq]
  /\ ws = [r \in Reqs |-> NoWs]
  /\ clients = {}
  /\ ticks = 0
  /\ bcastLog = <<>>
  /\ skipped = {}
  /\ heartbeat = TRUE
  /\ http = <<>>
  /\ mw = [r \in Reqs |-> NewMw]
  /\ match = NoMatch
  /\ now = 0
  /\ computed = "none"
  /\ sync = NoSync
  /\ \E n \in 0..MaxFeed :
        \E f \in [1..n -> EntryAttrs], c \in SUBSET {1} :
           seed = [NoSeed EXCEPT !.feed = feedOf(f), !.cricket = c]
  /\ received = 0
  /\ matchSubscribers = [t \in {} |-> {}]
  /\ subscriptions = [r \in Reqs |-> {}]
  /\ commentaryLog = <<>>

\* lines 442-465: the call up to the loop
BuildRandomizedFeed ==
  /\ seed.st = "idle"
  /\ seed' = [seed EXCEPT !.st = "looping",
                          !.keys = keysOf(seed.feed, {}),
                          !.buckets = bucketsOf(seed.feed, seed.cricket)]
  /\ UNCHANGED <<phase, arcjetKey, wsArcjet, req, ws, clients, ticks,
                 bcastLog, skipped, heartbeat, http, mw, match, now, computed,
                 sync, subVars>>

\* lines 467-486: one iteration that does not break; choice is what
\* Math.random selects
LoopPicks(choice) ==
  /\ seed.st = "looping"
  /\ Len(seed.randomized) < Len(seed.feed)
  /\ choice \in selectable(seed)
  /\ seed' = [seed EXCEPT !.buckets[choice] = Tail(@),
                          !.randomized = Append(@, seed.buckets[choice][1]),
                          !.picks = Append(@, choice),
                          !.lastMatchId = choice]
  /\ UNCHANGED <<phase, arcjetKey, wsArcjet, req, ws, clients, ticks,
                 bcastLog, skipped, heartbeat, http, mw, match, now, computed,
                 sync, subVars>>

\* lines 467, 471-473 and 489: the loop condition fails or the loop breaks
LoopEnds ==
  /\ seed.st = "looping"
  /\ Len(seed.randomized) >= Len(seed.feed) \/ candidates(seed) = {}
  /\ seed' = [seed EXCEPT !.st = "returned"]
  /\ UNCHANGED <<phase, arcjetKey, wsArcjet, req, ws, clients, ticks,
                 bcastLog, skipped, heartbeat, http, mw, match, now, computed,
                 sync, subVars>>

SeedNext ==
  \/ BuildRandomizedFeed
  \/ \E choice \in BucketKeys : LoopPicks(choice)
  \/ LoopEnds

SeedSpec == SeedInit /\ [][SeedNext]_vars

\* ----------------------------------------------------------------- claims
Arrived(r) == req[r].st # "new"
Finished(r) == req[r].st \in {"rejected", "handed"}
Rejected(r) == req[r].rejects > 0
Count(seq, x) == Cardinality({i \in DOMAIN seq : seq[i] = x})

\* C1: a request the handler rejected (bad URL, other path, policy denial,
\* policy error) was never handed to handleUpgrade, is not in wss.clients and
\* has no WebSocket state: no readyState, no liveness flag, no frame.
C1_NoStateForRejected ==
  \A r \in Reqs :
    Rejected(r) => /\ req[r].upgradeCalls = 0
                   /\ r \notin clients
                   /\ ws[r] = NoWs

C1_Witness ==
  \E r, s \in Reqs :
    /\ Rejected(r) /\ req[r].outcome.kind = "DENY"
    /\ s \in clients /\ Len(ws[s].frames) = 2
    /\ ticks > 0

\* C2 as stated: every request whose path is not /ws gets 404 and no policy
\* call.
C2_Original ==
  \A r \in Reqs :
    (Arrived(r) /\ req[r].url # "/ws") =>
       req[r].writes = <<404>> /\ req[r].protectCalls = 0

\* C2 amended: a request whose URL parses to a path other than /ws gets 404,
\* one whose URL cannot be parsed gets 400; either way the socket is
\* destroyed, protect() is never called and nothing is upgraded.
C2_NotFoundWithoutPolicy ==
  \A r \in Reqs :
    (Arrived(r) /\ req[r].url # "/ws") =>
       /\ req[r].url = "/other" => req[r].writes = <<404>>
       /\ req[r].url = "//" => req[r].writes = <<400>>
       /\ req[r].destroyed
       /\ req[r].protectCalls = 0
       /\ req[r].upgradeCalls = 0

C2_Witness ==
  \E r, s \in Reqs :
    /\ wsArcjet
    /\ req[r].url = "/other" /\ req[r].writes = <<404>>
    /\ req[s].url = "//" /\ req[s].writes = <<400>>

\* C3: a denied request gets exactly one status line, 429 when the reason is
\* a rate limit and 403 for every other reason.
C3_DeniedStatus ==
  \A r \in Reqs :
    req[r].outcome.kind = "DENY" =>
       /\ (req[r].writes = <<429>>) <=> (req[r].outcome.reason = "RATE_LIMIT")
       /\ (req[r].writes = <<403>>) <=> (req[r].outcome.reason # "RATE_LIMIT")

C3_Witness ==
  \E r, s \in Reqs :
    /\ req[r].outcome = [kind |-> "DENY", reason |-> "RATE_LIMIT"]
    /\ req[s].outcome = [kind |-> "DENY", reason |-> "BOT"]

\* C4: when protect() throws, the request gets one 5xx status line, which is
\* neither 429 nor 403, its socket is destroyed and no upgrade takes place.
C4_PolicyFaultStatus ==
  \A r \in Reqs :
    req[r].outcome.kind = "THROW" =>
       /\ Len(req[r].writes) = 1
       /\ req[r].writes[1] \in 500..599
       /\ req[r].writes[1] \notin {429, 403}
       /\ req[r].destroyed
       /\ req[r].upgradeCalls = 0
       /\ ws[r] = NoWs

C4_Witness ==
  \E r, s \in Reqs :
    /\ req[r].outcome.kind = "THROW"
    /\ req[s].outcome.kind = "DENY"

\* C5: a request whose handler has ended was either rejected once (one
\* status line written by the handler, socket destroyed, never handed to
\* handleUpgrade) or handed to handleUpgrade once (no rejection, the only
\* status line being the one ws itself answers with); no socket ever gets
\* two status lines, and none while the policy call is pending.
C5_OneOutcome ==
  \A r \in Reqs :
    /\ Len(req[r].writes) <= 1
    /\ req[r].st \in {"new", "protecting"} =>
         req[r].writes = <<>> /\ req[r].rejects = 0 /\ req[r].upgradeCalls = 0
    /\ Finished(r) =>
         \/ /\ req[r].rejects = 1 /\ req[r].upgradeCalls = 0
            /\ Len(req[r].writes) = 1
            /\ req[r].writes[1] \in {400, 404, 429, 403, 500}
            /\ req[r].destroyed
         \/ /\ req[r].rejects = 0 /\ req[r].upgradeCalls = 1
            /\ req[r].writes \in {<<>>, <<101>>, <<400>>}

C5_Witness ==
  \E r, s \in Reqs :
    /\ req[r].rejects = 1 /\ req[r].writes = <<429>>
    /\ req[s].upgradeCalls = 1 /\ req[s].writes = <<101>>

\* C6 as stated: without ARCJET_KEY the server runs, and every request for
\* /ws is handed to handleUpgrade without a policy call.
C6_PassThroughWithoutKey ==
  (phase # "loading" /\ ~arcjetKey) =>
     /\ phase = "running"
     /\ \A r \in Reqs :
          (Arrived(r) /\ req[r].url = "/ws") =>
             req[r].upgradeCalls = 1 /\ req[r].protectCalls = 0

\* C7: a WebSocket that was created has the welcome frame as its first frame
\* and nowhere else, whatever broadcasts and heartbeat firings interleave;
\* where no WebSocket was created there is no frame.
C7_WelcomeFirstOnce ==
  \A r \in Reqs :
    IF ws[r].readyState = "NONE" THEN ws[r].frames = <<>>
    ELSE /\ Len(ws[r].frames) >= 1
         /\ ws[r].frames[1] = Welcome
         /\ Count(ws[r].frames, Welcome) = 1

C7_Witness ==
  \E r \in Reqs :
    /\ ws[r].frames = <<Welcome, MatchCreated(1)>>
    /\ ws[r].since = <<"ping">>

\* C8: the m-th broadcastMatchCreated call put exactly one match_created
\* frame for m on every WebSocket of wss.clients that was OPEN at the call,
\* and none on any other, whether or not closing ones were in the set.
C8_BroadcastToOpenOnly ==
  \A m \in DOMAIN bcastLog : \A r \in Reqs :
    Count(ws[r].frames, MatchCreated(m)) =
      IF r \in bcastLog[m].open THEN 1 ELSE 0

C8_Witness ==
  \E m \in DOMAIN bcastLog : \E r, s \in Reqs :
    /\ r < s
    /\ r \in skipped
    /\ s \in bcastLog[m].open
    /\ Count(ws[s].frames, MatchCreated(m)) = 1
\* a step that is one firing of the heartbeat interval
IsTick == ticks' = ticks + 1

\* the heartbeat sent r a probe and no pong of r was handled since
ProbedSilent(r) == r \in clients /\ ws[r].since = <<"ping">>

\* C9: a WebSocket that was sent a probe and has not answered is terminated
\* by the next firing (it leaves the OPEN state); a WebSocket that has left
\* the OPEN state never returns to it and gets no further frame from any
\* broadcast; and, the timer firing and the destroyed socket's close event
\* being delivered, it is eventually out of wss.clients unless it answers.
C9_SilentConnectionReaped ==
  /\ [][IsTick =>
          \A r \in Reqs :
            ProbedSilent(r) => /\ ws'[r].since = <<"ping", "terminate">>
                               /\ ws'[r].readyState = "CLOSING"]_vars
  /\ [][\A r \in Reqs :
          ws[r].readyState \in {"CLOSING", "CLOSED"} =>
             /\ ws'[r].frames = ws[r].frames
             /\ ws'[r].readyState # "OPEN"]_vars
  /\ \A r \in Reqs :
       (ProbedSilent(r) /\ ticks < MaxTicks)
          ~> (r \notin clients \/ ws[r].since = <<>>)

C9_Witness ==
  \E r \in Reqs :
    /\ ws[r].readyState = "CLOSED"
    /\ ws[r].since = <<"ping", "terminate">>
    /\ r \notin clients
    /\ r \in skipped
    /\ \E m \in DOMAIN bcastLog : bcastLog[m].open # {}

\* C10: a firing handles every WebSocket of wss.clients in exactly one of two
\* ways: terminate() once and no ping() when its flag is not true, otherwise
\* flag set to false and ping() once; it leaves every WebSocket outside
\* wss.clients alone; and a flag is true only while nothing was called on the
\* WebSocket by the heartbeat since the connection handler or a pong set it.
C10_TickHandlesEachOnce ==
  /\ [][IsTick =>
          \A r \in Reqs :
            IF r \notin clients
              THEN ws'[r] = ws[r]
            ELSE IF ws[r].isAlive = "true"
              THEN /\ ws'[r].isAlive = "false"
                   /\ ws'[r].since = Append(ws[r].since, "ping")
                   /\ ws'[r].readyState = ws[r].readyState
              ELSE /\ ws'[r].isAlive = ws[r].isAlive
                   /\ ws'[r].since = Append(ws[r].since, "terminate")
                   /\ ws'[r].readyState = "CLOSING"]_vars
  /\ [](\A r \in Reqs : ws[r].isAlive = "true" => ws[r].since = <<>>)

C10_Witness ==
  \E r, s \in Reqs :
    /\ ws[r].since = <<"ping", "terminate">> /\ ws[r].isAlive = "false"
    /\ ws[r].readyState = "CLOSING"
    /\ ws[s].since = <<"ping">> /\ ws[s].isAlive = "false"
    /\ ws[s].readyState = "OPEN"

\* C11: a pong is never lost. Whatever happened between two firings of the
\* interval, a WebSocket of wss.clients whose "pong" listener ran after the
\* last probe (nothing was called on it by the heartbeat since) is not
\* terminated by the next firing: it stays in the state it was in, stays in
\* wss.clients and is sent exactly one new probe.
C11_PongNeverLost ==
  [][IsTick =>
       \A r \in clients :
         ws[r].since = <<>> => /\ ws'[r].readyState = ws[r].readyState
                               /\ ws'[r].since = <<"ping">>
                               /\ r \in clients']_vars

\* Without a policy a request is upgraded when it arrives, so r was connected
\* before s; s was probed by the first firing and terminated by the second,
\* so r was probed by the first firing as well, answered, and was probed
\* again, not terminated, by the second.
C11_Witness ==
  \E r, s \in Reqs :
    /\ ~wsArcjet
    /\ r < s
    /\ ticks = 2
    /\ ws[s].since = <<"ping", "terminate">>
    /\ ws[r].since = <<"ping">>
    /\ ws[r].readyState = "OPEN"
    /\ r \in clients

\* C12: a transport error on one WebSocket, or on the socket of one request
\* whose policy decision is pending, closes only that connection: the server
\* keeps running with its timer, and every other WebSocket keeps its state,
\* its flag and its place in wss.clients.
C12_ErrorIsolated ==
  [][\A r \in Reqs :
       (WsError(r) \/ PendingSocketError(r)) =>
          /\ phase' = "running"
          /\ ticks' = ticks
          /\ ws'[r].readyState # "OPEN"
          /\ \A s \in Reqs \ {r} : /\ ws'[s] = ws[s]
                                   /\ (s \in clients') = (s \in clients)]_vars

Answered(route, status) ==
  /\ Len(http') = Len(http) + 1
  /\ http'[Len(http')].route = route
  /\ http'[Len(http')].status = status

\* C14: when POST /matches has committed the row (201), broadcastMatchCreated
\* is called once for it and every OPEN WebSocket of wss.clients gets one
\* match_created frame; when the request is answered 400 or 500 there is no
\* call and no frame.
C14_CommitNotifies ==
  /\ [][Answered("matches", 201) =>
          /\ Len(bcastLog') = Len(bcastLog) + 1
          /\ \A r \in clients :
                ws[r].readyState = "OPEN" =>
                  \E m \in 1..MaxBroadcasts :
                    ws'[r].frames = Append(ws[r].frames, MatchCreated(m))]_vars
  /\ [][(Answered("matches", 400) \/ Answered("matches", 500)) =>
          /\ bcastLog' = bcastLog
          /\ ws' = ws]_vars

\* C15: when POST /matches/x/commentary has committed the entry (201), the
\* notify-new-commentary entry point is called once for match x and every
\* OPEN WebSocket subscribed to x gets one commentary frame for x.
C15_CommentaryDelivered ==
  [][\A x \in PathIds :
       (Answered("commentary", 201) /\ http'[Len(http')].matchId = x) =>
          /\ Len(commentaryLog') = Len(commentaryLog) + 1
          /\ commentaryLog'[Len(commentaryLog')] = x
          /\ \A r \in subscribersOf(Table, x) :
                ws[r].readyState = "OPEN" =>
                  ws'[r].frames = Append(ws[r].frames, Commentary(x))]_vars

\* a commentary event for match t has just been broadcast
IsCommentary(t) ==
  /\ Len(commentaryLog') = Len(commentaryLog) + 1
  /\ commentaryLog'[Len(commentaryLog')] = t

\* C16 as stated: a commentary event for match t puts one commentary frame
\* on every WebSocket in the subscriber set of t and nothing on any other.
C16_Original ==
  [][\A t \in MatchIds :
       IsCommentary(t) =>
         \A r \in Reqs :
           ws'[r].frames = IF r \in subscribersOf(Table, t)
                           THEN Append(ws[r].frames, Commentary(t))
                           ELSE ws[r].frames]_vars

\* C16: a commentary event for match t puts one commentary frame on every
\* WebSocket that is in the subscriber set of t and OPEN at that moment, and
\* nothing on any other: not on a WebSocket outside the set, and not on a
\* subscriber that is closing and has not been cleaned up yet.
C16_OpenSubscribersOnly ==
  [][\A t \in MatchIds :
       IsCommentary(t) =>
         \A r \in Reqs :
           ws'[r].frames = IF /\ r \in subscribersOf(Table, t)
                              /\ ws[r].readyState = "OPEN"
                           THEN Append(ws[r].frames, Commentary(t))
                           ELSE ws[r].frames]_vars

\* A is subscribed to match 1 and B to match 2; the commentary event for
\* match 1 reached A only.
C16_Witness ==
  \E a, b \in Reqs :
    /\ commentaryLog = <<1>>
    /\ ws[a].frames = <<Welcome, Subscribed(1), Commentary(1)>>
    /\ ws[b].frames = <<Welcome, Subscribed(2)>>
    /\ subscribersOf(Table, 1) = {a}
    /\ subscribersOf(Table, 2) = {b}

\* the text frames that carry the two commands for match t
SubscribeText(t) ==
  IF t = 1 THEN "{\"type\":\"subscribe\",\"matchId\":1}"
  ELSE "{\"type\":\"subscribe\",\"matchId\":2}"
UnsubscribeText(t) ==
  IF t = 1 THEN "{\"type\":\"unsubscribe\",\"matchId\":1}"
  ELSE "{\"type\":\"unsubscribe\",\"matchId\":2}"

\* C17: on every table the server reaches and for every WebSocket c and
\* match t: after subscribe(t, c) c is a subscriber of t and t is in c's own
\* set; after unsubscribe(t, c) neither holds; a second subscribe changes
\* nothing (c is in the set once); unsubscribing a WebSocket that is not a
\* subscriber changes nothing. The same holds of the table after a subscribe
\* or an unsubscribe command has been handled.
C17_SubscribeUnsubscribe ==
  /\ [](\A c \in Reqs, t \in MatchIds :
         LET s1 == subscribe(Table, t, c)
             s2 == subscribe(s1, t, c)
             u1 == unsubscribe(Table, t, c)
         IN  /\ c \in subscribersOf(s1, t) /\ t \in s1.own[c]
             /\ c \notin subscribersOf(u1, t) /\ t \notin u1.own[c]
             /\ s2 = s1
             /\ Cardinality({x \in subscribersOf(s2, t) : x = c}) = 1
             /\ c \notin subscribersOf(Table, t) => u1 = Table)
  /\ [][\A r \in Reqs, t \in MatchIds :
          /\ Message(r, SubscribeText(t)) =>
                /\ r \in subscribersOf(Table', t)
                /\ t \in subscriptions'[r]
                /\ r \in subscribersOf(Table, t) => Table' = Table
          /\ Message(r, UnsubscribeText(t)) =>
                /\ r \notin subscribersOf(Table', t)
                /\ t \notin subscriptions'[r]
                /\ r \notin subscribersOf(Table, t) => Table' = Table]_vars

\* one WebSocket has subscribed to match 1 twice and is in its set once
C17_Witness ==
  \E c \in Reqs :
    /\ ws[c].frames = <<Welcome, Subscribed(1), Subscribed(1)>>
    /\ matchSubscribers = [t \in {1} |-> {c}]
    /\ subscriptions[c] = {1}

\* C18: in every state a WebSocket is in the subscriber set of match t
\* exactly when t is in its own subscription set, and every key of the table
\* has a non-empty subscriber set.
C18_TableConsistent ==
  /\ \A r \in Reqs, t \in MatchIds :
       r \in subscribersOf(Table, t) <=> t \in subscriptions[r]
  /\ \A t \in DOMAIN matchSubscribers : matchSubscribers[t] # {}
  /\ DOMAIN matchSubscribers \subseteq MatchIds

\* an open WebSocket subscribed to match 2 and unsubscribed again: the key
\* is gone with its last subscriber
C18_Witness ==
  \E d \in Reqs :
    /\ ws[d].readyState = "OPEN"
    /\ ws[d].frames = <<Welcome, Subscribed(2)>>
    /\ received = 2
    /\ subscriptions[d] = {}
    /\ DOMAIN matchSubscribers = {}

\* C19: a WebSocket that is out of wss.clients (closed by the peer, after a
\* transport error or after the heartbeat terminated it) is in no subscriber
\* set and has an empty subscription set; and the step that takes it out
\* removes every key of which it was the only subscriber and leaves the
\* other subscribers of every other key in place.
C19_DisconnectCleansUp ==
  /\ [](\A r \in Reqs \ clients :
         /\ subscriptions[r] = {}
         /\ \A t \in DOMAIN matchSubscribers : r \notin matchSubscribers[t])
  /\ [][\A r \in Reqs :
          (r \in clients /\ r \notin clients') =>
             \A t \in DOMAIN matchSubscribers :
               IF matchSubscribers[t] = {r}
               THEN t \notin DOMAIN matchSubscribers'
               ELSE /\ t \in DOMAIN matchSubscribers'
                    /\ matchSubscribers'[t] = matchSubscribers[t] \ {r}]_vars

\* a WebSocket subscribed to match 1, never unsubscribed, was probed, was
\* terminated by the next firing and is closed: key 1 is gone
C19_Witness ==
  \E r \in Reqs :
    /\ ws[r].readyState = "CLOSED"
    /\ ws[r].since = <<"ping", "terminate">>
    /\ ws[r].frames = <<Welcome, Subscribed(1)>>
    /\ received = 1
    /\ r \notin clients
    /\ 1 \notin DOMAIN matchSubscribers

\* C20: when the server handles a subscribe command for a positive match id t
\* from an open WebSocket, that WebSocket gets one more frame, the
\* acknowledgment {type: subscribed, matchId: t}, and no other WebSocket gets
\* anything.
C20_SubscribeAcknowledged ==
  [][\A r \in Reqs, t \in MatchIds :
       Message(r, SubscribeText(t)) =>
          /\ ws'[r].frames =
                Append(ws[r].frames, [type |-> "subscribed", data |-> t])
          /\ \A k \in Reqs \ {r} : ws'[k] = ws[k]]_vars

C20_Witness ==
  \E r \in Reqs :
    /\ ws[r].readyState = "OPEN"
    /\ ws[r].frames = <<Welcome, [type |-> "subscribed", data |-> 2]>>
    /\ 2 \in subscriptions[r]
    /\ received = 1

\* C21: when the server handles a text frame that is not JSON from an open
\* WebSocket, that WebSocket gets exactly one more frame, {type: error,
\* message: "Invalid JSON"}; the table and the subscription sets are not
\* touched; the WebSocket stays OPEN and in wss.clients; and no other
\* WebSocket changes.
C21_InvalidJsonIsolated ==
  [][\A r \in Reqs :
       Message(r, "not-json") =>
          /\ ws'[r].frames =
                Append(ws[r].frames,
                       [type |-> "error", message |-> "Invalid JSON"])
          /\ ws'[r].readyState = "OPEN"
          /\ r \in clients'
          /\ Table' = Table
          /\ \A k \in Reqs \ {r} : ws'[k] = ws[k]]_vars

\* the WebSocket got the error frame and then subscribed to match 1
C21_Witness ==
  \E r \in Reqs :
    /\ ws[r].readyState = "OPEN"
    /\ ws[r].frames =
         <<Welcome, [type |-> "error", message |-> "Invalid JSON"],
           [type |-> "subscribed", data |-> 1]>>
    /\ subscriptions[r] = {1}

\* C22: the number of match_created frames for match m on a WebSocket
\* changes only in the step that is the m-th broadcastMatchCreated call,
\* only on a WebSocket that is OPEN in that step, and only from 0 to 1.
\* Nothing is kept for later: no other step, the acceptance of a connection
\* included, writes such a frame.
C22_AtMostOnceNoQueue ==
  [][\A r \in Reqs, m \in 1..MaxBroadcasts :
       Count(ws'[r].frames, MatchCreated(m))
         # Count(ws[r].frames, MatchCreated(m)) =>
            /\ Len(bcastLog) = m - 1
            /\ Len(bcastLog') = m
            /\ ws[r].readyState = "OPEN"
            /\ Count(ws[r].frames, MatchCreated(m)) = 0
            /\ Count(ws'[r].frames, MatchCreated(m)) = 1]_vars

\* s got the frame of call 1; r was not yet accepted at that call, is OPEN
\* now and has its welcome only
C22_Witness ==
  \E r, s \in Reqs :
    /\ Len(bcastLog) = 1
    /\ s \in bcastLog[1].open
    /\ ws[s].frames = <<Welcome, MatchCreated(1)>>
    /\ r \notin bcastLog[1].open
    /\ ws[r].readyState = "OPEN"
    /\ ws[r].frames = <<Welcome>>

\* the policy call of some request is outstanding
Pending == phase = "running" /\ \E r \in Reqs : req[r].st = "protecting"

\* C23: while the policy call of a request is outstanding the interval can
\* fire, the next upgrade request can be handled and broadcastMatchCreated
\* can run (each as long as the explored number of them is not used up).
C23_PendingBlocksNothing ==
  Pending =>
    /\ ticks < MaxTicks => ENABLED HeartbeatTick
    /\ Len(bcastLog) < MaxBroadcasts => ENABLED BroadcastMatchCreated
    /\ \A k \in Reqs :
         (req[k].st = "new" /\ \A j \in Reqs : j < k => req[j].st # "new")
            => \A u \in Urls : ENABLED UpgradeRequest(k, u, TRUE)

\* request r is still waiting for its decision; s arrived after it, was
\* accepted, got a broadcast and was probed by a firing
C23_Witness ==
  \E r, s \in Reqs :
    /\ r < s
    /\ req[r].st = "protecting"
    /\ ws[s].readyState = "OPEN"
    /\ ws[s].frames = <<Welcome, MatchCreated(1)>>
    /\ ws[s].since = <<"ping">>

\* r is terminated by this step
TerminatedNow(r) ==
  /\ Len(ws'[r].since) = Len(ws[r].since) + 1
  /\ ws'[r].since[Len(ws'[r].since)] = "terminate"

\* C24: a firing terminates a WebSocket only if an earlier firing sent it a
\* probe and no pong of it was handled since: what the heartbeat called on
\* it since its flag was last set starts with a ping. A WebSocket that no
\* firing has touched yet is probed, not terminated, by the first one.
C24_GraceBeforeTermination ==
  [][\A r \in Reqs :
       TerminatedNow(r) =>
          /\ IsTick
          /\ r \in clients
          /\ ws[r].since # <<>>
          /\ ws[r].since[1] = "ping"
          /\ ws[r].isAlive = "false"]_vars

\* the first firing since the start found r connected and probed it
C24_Witness ==
  \E r \in Reqs :
    /\ ticks = 1
    /\ r \in clients
    /\ ws[r].readyState = "OPEN"
    /\ ws[r].isAlive = "false"
    /\ ws[r].since = <<"ping">>

\* C25: in the first snapshot, a firing of the heartbeat interval while the
\* policy check of a connection is pending does not terminate that
\* connection: the firing leaves its readyState as it was.
C25_PendingNotTerminated ==
  [][IsTick =>
       \A r \in Reqs :
          (req[r].st = "protecting" /\ r \in clients)
             => ws'[r].readyState = ws[r].readyState]_vars

\* C26: in the first snapshot, a connection has received a frame only if
\* its policy check has completed with an allow decision; a pending or a
\* denied connection has received none.
C26_NoFrameBeforeAllow ==
  \A r \in Reqs :
    (wsArcjet /\ ws[r].frames # <<>>) => req[r].outcome.kind = "ALLOW"

\* the handler of r resumes from the await in this step
Resumes(r) == req[r].st = "protecting" /\ req'[r].st = "handed"

\* C27: in the first snapshot, when the policy call of a connection settles
\* without allowing, the handler calls socket.close once, with 1013 for a
\* rate-limit denial, 1008 for any other denial and 1011 for a throw; a
\* WebSocket that was OPEN is CLOSING afterwards, none is OPEN, and the rest
\* of the handler, which still runs (isAlive becomes true), sends it no
\* welcome frame.
C27_CloseCodesNoWelcome ==
  [][\A r \in Reqs :
       (Resumes(r) /\ req'[r].outcome.kind # "ALLOW") =>
          /\ ws'[r].closeCalls =
               Append(ws[r].closeCalls,
                      CASE req'[r].outcome.kind = "THROW" -> 1011
                        [] req'[r].outcome.reason = "RATE_LIMIT" -> 1013
                        [] OTHER -> 1008)
          /\ Len(ws'[r].closeCalls) = 1
          /\ ws'[r].readyState # "OPEN"
          /\ ws[r].readyState = "OPEN" => ws'[r].readyState = "CLOSING"
          /\ ws'[r].isAlive = "true"
          /\ ws'[r].frames = ws[r].frames
          /\ Count(ws'[r].frames, Welcome) = 0]_vars

\* a rate-limited and a bot connection, both closed by the handler with
\* their codes, flagged alive by the rest of the handler and without frames
C27_Witness ==
  \E r, s \in Reqs :
    /\ req[r].st = "handed"
    /\ req[r].outcome = [kind |-> "DENY", reason |-> "RATE_LIMIT"]
    /\ ws[r].closeCalls = <<1013>>
    /\ ws[r].readyState = "CLOSING"
    /\ ws[r].isAlive = "true"
    /\ ws[r].frames = <<>>
    /\ req[s].outcome = [kind |-> "DENY", reason |-> "BOT"]
    /\ ws[s].closeCalls = <<1008>>
    /\ ws[s].readyState = "CLOSING"
    /\ ws[s].frames = <<>>

\* C28: a request whose URL cannot be parsed gets the single status line
\* 400 and its socket is destroyed; the policy is not called for it,
\* handleUpgrade is not called and no WebSocket exists for it. Among the
\* requests whose URL is not /ws it is the only one whose status lines are
\* not exactly one 404.
C28_BadRequestOnly ==
  \A r \in Reqs :
    Arrived(r) =>
       /\ req[r].url = "//" =>
            /\ req[r].st = "rejected"
            /\ req[r].writes = <<400>>
            /\ req[r].destroyed
            /\ req[r].protectCalls = 0
            /\ req[r].upgradeCalls = 0
            /\ ws[r] = NoWs
            /\ r \notin clients
       /\ (req[r].url # "/ws" /\ req[r].writes # <<404>>) => req[r].url = "//"

\* with a policy configured, an unparsable request was turned away with 400
\* and a later request for /ws was admitted
C28_Witness ==
  \E r, s \in Reqs :
    /\ wsArcjet
    /\ r < s
    /\ req[r].url = "//" /\ req[r].writes = <<400>> /\ req[r].destroyed
    /\ req[r].protectCalls = 0
    /\ req[s].url = "/ws" /\ req[s].protectCalls = 1 /\ s \in clients

\* C29: a run of securityMiddleware that has not returned has called next()
\* zero times and sent nothing. One that has returned produced exactly one
\* outcome: next() once and no response when no policy is configured or the
\* decision allows; otherwise one response and no next(), the response being
\* 429 for a rate-limit denial, 403 for any other denial and 503 for a throw.
C29_OneOutcome ==
  \A r \in Reqs :
    /\ mw[r].st # "done" => mw[r].nextCalls = 0 /\ mw[r].responses = <<>>
    /\ mw[r].st = "done" =>
         /\ mw[r].nextCalls + Len(mw[r].responses) = 1
         /\ mw[r].nextCalls = 1 <=>
              (~arcjetKey \/ mw[r].outcome.kind = "ALLOW")
         /\ mw[r].outcome.kind = "DENY" =>
              mw[r].responses =
                 IF mw[r].outcome.reason = "RATE_LIMIT" THEN <<429>>
                 ELSE <<403>>
         /\ mw[r].outcome.kind = "THROW" => mw[r].responses = <<503>>

\* with a policy configured, one request was turned away with 429 and
\* another one was passed on
C29_Witness ==
  \E r, s \in Reqs :
    /\ arcjetKey
    /\ mw[r].st = "done" /\ mw[r].responses = <<429>> /\ mw[r].nextCalls = 0
    /\ mw[s].st = "done" /\ mw[s].responses = <<>> /\ mw[s].nextCalls = 1

\* the Date made from x is valid, and its instant
ValidTime(x) == x.kind \in {"iso", "null"}
InstantOf(x) == IF x.kind = "iso" THEN x.t ELSE 0

\* C30: getMatchStatus returns null exactly when the start or the end is an
\* invalid date; otherwise scheduled when now < start, else finished when
\* now >= end, else live. For start < end, now = start gives live and
\* now = end gives finished; for end <= start the result is never live.
C30_StatusRule ==
  computed # "none" =>
    LET s == InstantOf(match.startTime)
        e == InstantOf(match.endTime)
        ok == ValidTime(match.startTime) /\ ValidTime(match.endTime)
    IN  /\ computed = "null" <=> ~ok
        /\ ok => /\ computed = "scheduled" <=> now < s
                 /\ computed = "finished" <=> (now >= s /\ now >= e)
                 /\ computed = "live" <=> (now >= s /\ now < e)
                 /\ (s < e /\ now = s) => computed = "live"
                 /\ (s < e /\ now = e) => computed = "finished"
                 /\ e <= s => computed # "live"

\* the status was computed at the very end of a match that started earlier
C30_Witness ==
  /\ match.startTime = RawTime("iso", 1)
  /\ match.endTime = RawTime("iso", 2)
  /\ now = 2
  /\ computed = "finished"

\* position of a status in the life of a match
Rank(status) ==
  CASE status = "scheduled" -> 1
    [] status = "live" -> 2
    [] status = "finished" -> 3
    [] OTHER -> 0

\* the match has valid times with start < end
ProperMatch ==
  /\ ValidTime(match.startTime) /\ ValidTime(match.endTime)
  /\ InstantOf(match.startTime) < InstantOf(match.endTime)

\* C31: for a match with start < end, when the clock advances the status that
\* getMatchStatus computes does not move backward (scheduled, live, finished
\* in that order), and a status computed as finished is computed as finished
\* at every later instant; what a call stored is the status of its instant.
C31_StatusNeverBackward ==
  [][ProperMatch =>
       /\ now' > now =>
            /\ Rank(getMatchStatus(match.startTime, match.endTime, now)) <=
                 Rank(getMatchStatus(match.startTime, match.endTime, now'))
            /\ Rank(getMatchStatus(match.startTime, match.endTime, now)) >= 1
            /\ getMatchStatus(match.startTime, match.endTime, now) = "finished"
                 => \A n \in Instants :
                       n >= now =>
                         getMatchStatus(match.startTime, match.endTime, n)
                           = "finished"
       /\ computed' # "none" =>
            computed' = getMatchStatus(match'.startTime, match'.endTime, now')]_vars

\* a match that was scheduled at the epoch is live one instant later
C31_Witness ==
  /\ match.startTime = RawTime("iso", 1)
  /\ match.endTime = RawTime("iso", 2)
  /\ now = 1
  /\ computed = "live"

\* this step is a call of syncMatchStatus
IsSyncCall == sync'.calls = sync.calls + 1

\* this step is the return of a call of syncMatchStatus
SyncReturns == sync'.st = "returned" /\ (IsSyncCall \/ sync.st = "updating")

\* C32: a call of syncMatchStatus calls updateStatus once when the status
\* computed for the instant of the call is not null and differs from
\* match.status, and not at all otherwise; no other step calls it. When a
\* call returns, match.status is the returned value, and a call made at the
\* same instant right after a return calls updateStatus zero times.
C32_UpdateOnlyOnChange ==
  [][/\ IsSyncCall =>
         LET nextStatus == getMatchStatus(match.startTime, match.endTime, now)
         IN  IF nextStatus # "null" /\ nextStatus # sync.status
             THEN sync'.updateCalls = sync.updateCalls + 1
             ELSE sync'.updateCalls = sync.updateCalls
     /\ ~IsSyncCall => sync'.updateCalls = sync.updateCalls
     /\ SyncReturns => sync'.status = sync'.returned
     /\ (IsSyncCall /\ sync.st = "returned" /\ sync.at = now) =>
           /\ sync'.updateCalls = sync.updateCalls
           /\ sync'.st = "returned"
           /\ sync'.returned = sync.returned]_vars

\* a first call persisted "live" for a match that was stored as scheduled,
\* and a second call at the same instant returned it without an update
C32_Witness ==
  /\ sync.calls = 2
  /\ sync.updateCalls = 1
  /\ sync.st = "returned"
  /\ sync.at = now
  /\ sync.status = "live" /\ sync.returned = "live" /\ sync.persisted = "live"

\* C33: when updateStatus fails, the call of syncMatchStatus throws and
\* match.status is what it was; match.status changes only in a step in which
\* updateStatus fulfilled, and then to the status that was persisted.
C33_FailureLeavesStatus ==
  [][/\ (sync.st = "updating" /\ sync'.st = "threw") =>
           /\ sync'.status = sync.status
           /\ sync'.returned = "none"
     /\ sync'.status # sync.status =>
           /\ sync.st = "updating"
           /\ sync'.st = "returned"
           /\ sync'.status = sync'.persisted]_vars

\* updateStatus rejected for a match that had become live: the call threw,
\* the object still says scheduled and so does the database
C33_Witness ==
  /\ sync.st = "threw"
  /\ sync.next = "live"
  /\ sync.status = "scheduled"
  /\ sync.persisted = "scheduled"
  /\ sync.updateCalls = 1

\* this step is a POST /matches that stored a row
StoresMatch ==
  /\ Len(http') = Len(http) + 1
  /\ http'[Len(http')].route = "matches"
  /\ http'[Len(http')].status = 201

\* C34: the three values of the match_status enum are pairwise distinct;
\* whatever getMatchStatus returned is one of them or null; and the status a
\* POST /matches stores is one of them, never null.
C34_StoredStatusInEnum ==
  [][/\ \A i, j \in DOMAIN matchStatusEnum :
          i # j => matchStatusEnum[i] # matchStatusEnum[j]
     /\ Len(matchStatusEnum) = 3
     /\ computed' # "none" =>
          \/ computed' = "null"
          \/ \E i \in DOMAIN matchStatusEnum : matchStatusEnum[i] = computed'
     /\ StoresMatch =>
          /\ computed' \in {"scheduled", "live", "finished"}
          /\ \E i \in DOMAIN matchStatusEnum : matchStatusEnum[i] = computed'
          /\ match.startTime.kind = "iso" /\ match.endTime.kind = "iso"]_vars

\* a match from instant 1 to instant 2 was posted at instant 1 and stored as
\* live
C34_Witness ==
  /\ http = <<[route |-> "matches", matchId |-> 0, status |-> 201]>>
  /\ match.startTime = RawTime("iso", 1)
  /\ match.endTime = RawTime("iso", 2)
  /\ now = 1
  /\ computed = "live"

\* C35: what buildRandomizedFeed returns has the length of the feed and
\* holds each entry of the feed exactly once.
C35_FeedIsPermuted ==
  seed.st = "returned" =>
    /\ Len(seed.randomized) = Len(seed.feed)
    /\ \A i \in DOMAIN seed.feed : Count(seed.randomized, seed.feed[i]) = 1

\* C36: an iteration does not choose the bucket chosen by the iteration
\* before it while another bucket still has entries.
C36_NoConsecutiveBucket ==
  [][(/\ Len(seed'.picks) = Len(seed.picks) + 1
      /\ seed.picks # <<>>
      /\ \E k \in BucketKeys :
            k # seed.picks[Len(seed.picks)] /\ seed.buckets[k] # <<>>)
        => seed'.picks[Len(seed'.picks)] # seed.picks[Len(seed.picks)]]_vars
====
